---- MODULE Spec2Model ----
(***************************************************************************)
(* Model of src/src/openlaunch/server.py: the module-level monitor, the    *)
(* MockLaunchMonitor session (shots, club, running flag), the Socket.IO    *)
(* event handlers and the shot callback, and the events broadcast to the   *)
(* connected clients.                                                      *)
(*                                                                         *)
(* The server takes no lock.  Each event handler runs in its own thread    *)
(* of the Socket.IO server, so a handler is modelled as a sequence of      *)
(* steps, one per statement that reads or writes shared state, and the     *)
(* steps of different handlers interleave.  get_session_stats is taken     *)
(* as one read of the shot list.                                           *)
(*                                                                         *)
(* Speeds are integers in hundredths of a mph.  Of a Shot only the fields  *)
(* the server itself sets or reads are kept: ball_speed_mph, club and      *)
(* timestamp (launch_monitor.py is not part of the sources).               *)
(***************************************************************************)
EXTENDS Integers, Sequences, FiniteSets, TLC

\* ---------------------------------------------------------------- bounds
\* Number of events ever broadcast; as every simulated shot is broadcast, it
\* also caps the number of shots and the clock behind datetime.now().
MaxEvents == 2

\* Browser clients.
Observers == {"o1", "o2"}
\* Concurrent simulate_shot handler threads.
SimSlots == {1, 2}
\* random.uniform(-10, 10) around 150.0, one sample outcome (1/100 mph).
BallSpeeds == {14504}

\* ------------------------------------------------------------- ClubType
\* The members of the ClubType enumeration (values as sent on the wire).
\* Ball speeds (hundredths of mph) given to the source when it is driven
\* directly: 150 +/- 10 mph, among them two whose mean is no whole number.
SourceSpeeds == {14000, 15000, 15001}
\* What a caller may do to a list it holds.
ListMutations == {"append", "pop", "clear"}
ClubType == {"driver", "putter"}
\* Names a client may send in a set_club payload.
ClubNames == ClubType \cup {"not_a_real_club"}
\* Payloads of a set_club command: with a "club" field, or without one.
SetClubData == [has_club : {TRUE}, club : ClubNames]
                 \cup {[has_club |-> FALSE, club |-> "driver"]}

VARIABLES
    monitor,        \* global monitor: "None", "Mock" or "Live"
    mock_mode,      \* global mock_mode
    shots,          \* monitor._shots
    running,        \* monitor._running
    shot_callback,  \* monitor._shot_callback is set
    current_club,   \* monitor._current_club
    now,            \* clock: ticks of datetime.now() consumed so far
    sim,            \* simulate_shot handler threads
    clr,            \* clear_session handler thread
    sc,             \* set_club handler thread
    snap,           \* connect / get_session handler thread
    joined,         \* per client: -1 not connected, else length of log at connect
    log,            \* every event broadcast so far, in emission order
    applied,        \* history: the mutations applied to the session, in order
    started,        \* main() has called start_monitor
    connect_ok,     \* what the monitor's connect() returned (TRUE before any)
    ret,            \* the list a caller of get_shots() holds
    called          \* the last two methods called on the monitor object

vars == <<monitor, mock_mode, shots, running, shot_callback, current_club, now,
          sim, clr, sc, snap, joined, log, applied, started, connect_ok, ret,
          called>>

session == <<shots, running, shot_callback, current_club>>
globals == <<monitor, mock_mode>>
clients == <<joined>>
caller == <<connect_ok, ret, called>>

\* ---------------------------------------------------------------- values
NoShot == [timestamp |-> 0, ball_speed_mph |-> 0, club |-> "none"]
\* A Python dict of statistics: the keys it holds and their values.
EmptyDict == [keys |-> {}, shot_count |-> 0, avg_ball_speed |-> <<0, 1>>,
              max_ball_speed |-> 0, min_ball_speed |-> 0, std_dev |-> <<0, 1>>]

RECURSIVE GCD(_, _)
GCD(a, b) == IF b = 0 THEN a ELSE GCD(b, a % b)

RECURSIVE SumSpeeds(_)
SumSpeeds(s) == IF s = <<>> THEN 0 ELSE Head(s).ball_speed_mph + SumSpeeds(Tail(s))

SpeedSet(s) == {s[i].ball_speed_mph : i \in 1..Len(s)}
Max(S) == CHOOSE x \in S : \A y \in S : y <= x
Min(S) == CHOOSE x \in S : \A y \in S : x <= y

\* Mutant of Mean: the mean cut down to a whole number of hundredths.
Mean_floor(s) == <<SumSpeeds(s) \div Len(s), 1>>

\* statistics.mean(ball_speeds) as an exact fraction <<numerator, denominator>>.
Mean(s) ==
    LET g == GCD(SumSpeeds(s), Len(s))
    IN  <<SumSpeeds(s) \div g, Len(s) \div g>>

\* The sums of d and of d * d over the shots of s, d being the ball speed
\* less the speed base.
RECURSIVE SumDev(_, _)
SumDev(s, base) ==
    IF s = <<>> THEN 0
    ELSE (Head(s).ball_speed_mph - base) + SumDev(Tail(s), base)
RECURSIVE SumDevSq(_, _)
SumDevSq(s, base) ==
    IF s = <<>> THEN 0
    ELSE (Head(s).ball_speed_mph - base) * (Head(s).ball_speed_mph - base)
           + SumDevSq(Tail(s), base)

\* statistics.stdev(ball_speeds) if len(ball_speeds) > 1 else 0, given by its
\* square, an exact fraction <<numerator, denominator>>: the sample variance
\* (n * sum d^2 - (sum d)^2) / (n * (n - 1)), the deviations d taken from the
\* first speed, which leaves the variance as it is.  0 is <<0, 1>>.
StdDev(s) ==
    IF Len(s) > 1
    THEN LET n == Len(s)
             base == s[1].ball_speed_mph
             num == n * SumDevSq(s, base) - SumDev(s, base) * SumDev(s, base)
             den == n * (n - 1)
             g == GCD(num, den)
         IN  <<num \div g, den \div g>>
    ELSE <<0, 1>>

\* MockLaunchMonitor.get_session_stats on shot list s.  A key that the dict
\* does not hold is not in keys (its field is then without meaning).
get_session_stats(s) ==
    IF s = <<>>
    THEN [keys |-> {"shot_count", "avg_ball_speed", "max_ball_speed", "min_ball_speed"},
          shot_count |-> 0, avg_ball_speed |-> <<0, 1>>,
          max_ball_speed |-> 0, min_ball_speed |-> 0, std_dev |-> <<0, 1>>]
    ELSE [keys |-> {"shot_count", "avg_ball_speed", "max_ball_speed", "min_ball_speed",
                    "std_dev"},
          shot_count |-> Len(s), avg_ball_speed |-> Mean(s),
          max_ball_speed |-> Max(SpeedSet(s)), min_ball_speed |-> Min(SpeedSet(s)),
          std_dev |-> StdDev(s)]

\* Mutant of get_shots_ref: the list returned is self._shots itself.
get_shots_ref_alias == "self._shots"

\* MockLaunchMonitor.get_shots: which list object is returned: .copy() makes
\* a new one.
get_shots_ref == "copy"

\* Mutant of get_shots: the copy is taken from the second element on.
get_shots_from_second(s) == SubSeq(s, 2, Len(s))

\* MockLaunchMonitor.get_shots: a copy of the list.
get_shots(s) == [i \in 1..Len(s) |-> s[i]]

\* round(x, 1) on a speed in hundredths: to the nearest tenth.
Round1(x) == ((x + 5) \div 10) * 10

\* shot_to_dict: the JSON-serialisable dict of a Shot.
shot_to_dict(shot) ==
    [timestamp |-> shot.timestamp,
     ball_speed_mph |-> Round1(shot.ball_speed_mph),
     club |-> shot.club]

shots_to_dicts(s) == [i \in 1..Len(s) |-> shot_to_dict(s[i])]

\* Mutant of IsClubType: no name is refused.
IsClubType_any(name) == name = name

\* ClubType(club_name) raises ValueError unless club_name is a member's value.
IsClubType(name) == name \in ClubType

\* data.get("club", "driver")
club_of(data) == IF data.has_club THEN data.club ELSE "driver"

\* ---------------------------------------------------------------- events
\* The fields op and who are history, not payload.  op: the position in
\* applied of the mutation the event reports (0: none).
ShotEvent(d, st, op) ==
    [type |-> "shot", shot |-> d, stats |-> st, shots |-> <<>>,
     mode |-> "absent", club |-> "none", op |-> op, who |-> "none"]
SessionStateEvent(st, ds, m) ==
    [type |-> "session_state", shot |-> NoShot, stats |-> st, shots |-> ds,
     mode |-> m, club |-> "none", op |-> 0]
\* History on a session_state event: the client whose connect caused it.
Tagged(e, who) == [type |-> e.type, shot |-> e.shot, stats |-> e.stats,
                   shots |-> e.shots, mode |-> e.mode, club |-> e.club,
                   op |-> e.op, who |-> who]
ClubChangedEvent(c, op) ==
    [type |-> "club_changed", shot |-> NoShot, stats |-> EmptyDict, shots |-> <<>>,
     mode |-> "absent", club |-> c, op |-> op, who |-> "none"]
SessionClearedEvent(op) ==
    [type |-> "session_cleared", shot |-> NoShot, stats |-> EmptyDict, shots |-> <<>>,
     mode |-> "absent", club |-> "none", op |-> op, who |-> "none"]

\* An entry of the history applied: a start or stop of the monitor, or a
\* mutation of a session ("shot", "clear", "club").  ts: the timestamp of the
\* appended shot; club: the club set, or the club the appended shot carries;
\* cap: the length of applied when the shot was built; live: the mutated
\* object was the global monitor (not an object stop_monitor had dropped).
Mutation(kind, ts, club, cap, live) ==
    [kind |-> kind, ts |-> ts, club |-> club, cap |-> cap, live |-> live]

\* socketio.emit(event, data): broadcast to every connected client.
emit(e) == log' = Append(log, e)

\* Handlers in flight that will still broadcast an event.
Pending ==
    Cardinality({i \in SimSlots : sim[i].pc \notin {"idle", "return"}})
      + (IF clr.pc # "idle" THEN 1 ELSE 0)
      + (IF sc.pc = "emit" THEN 1 ELSE 0)
      + (IF snap.pc # "idle" THEN 1 ELSE 0)
\* A handler that may broadcast is started only while the log has room for it.
Room == Len(log) + Pending < MaxEvents

\* No list held by a caller of get_shots().
NoList == [ref |-> "none", val |-> <<>>]

\* History of the methods called on the monitor object by the code that
\* drives it directly: the last call, the one before it, and the parity of
\* the number of calls.
NoCalls == [prev |-> "none", last |-> "none", tick |-> FALSE]
Called(name) == called' = [prev |-> called.last, last |-> name, tick |-> ~called.tick]

\* Handler threads at rest.  op, cap, base, has_club and who are history.
IdleSim == [pc |-> "idle", shot |-> NoShot, stats |-> EmptyDict, self_live |-> FALSE,
            op |-> 0, cap |-> 0]
IdleClr == [pc |-> "idle", op |-> 0]
IdleSc == [pc |-> "idle", club_name |-> "none", club |-> "none", op |-> 0,
           has_club |-> TRUE]
IdleSnap == [pc |-> "idle", kind |-> "none", stats |-> EmptyDict, shots |-> <<>>,
             base |-> 0, who |-> "none"]

Init ==
    /\ monitor = "None"
    /\ mock_mode = FALSE
    /\ shots = <<>>
    /\ running = FALSE
    /\ shot_callback = FALSE
    /\ current_club = "driver"
    /\ now = 0
    /\ sim = [i \in SimSlots |-> IdleSim]
    /\ clr = IdleClr
    /\ sc = IdleSc
    /\ snap = IdleSnap
    /\ joined = [o \in Observers |-> -1]
    /\ log = <<>>
    /\ applied = <<>>
    /\ started = FALSE
    /\ connect_ok = TRUE
    /\ ret = NoList
    /\ called = NoCalls

\* ------------------------------------------- MockLaunchMonitor methods
\* Each method as its effect on the fields of the monitor object.

\* connect(): what it may return.  MockLaunchMonitor.connect returns True;
\* LaunchMonitor.connect reports success or failure.
connect(mock) == IF mock THEN {TRUE} ELSE {TRUE, FALSE}

\* __init__
MockLaunchMonitor_init ==
    /\ shots' = <<>>
    /\ running' = FALSE
    /\ shot_callback' = FALSE
    /\ current_club' = "driver"

\* start(shot_callback=on_shot_detected) on a fresh object (after __init__).
MockLaunchMonitor_start ==
    /\ shots' = <<>>
    /\ current_club' = "driver"
    /\ shot_callback' = TRUE
    /\ running' = TRUE

\* start(shot_callback=on_shot_detected) on an object in use:
\* self._shot_callback = shot_callback; self._running = True.
start ==
    /\ shot_callback' = TRUE
    /\ running' = TRUE
    /\ UNCHANGED <<shots, current_club>>

\* Mutant of MockLaunchMonitor_stop: the running flag is flipped.
MockLaunchMonitor_stop_toggle ==
    /\ running' = ~running
    /\ UNCHANGED <<shots, shot_callback, current_club>>

\* stop(): self._running = False.
MockLaunchMonitor_stop ==
    /\ running' = FALSE
    /\ UNCHANGED <<shots, shot_callback, current_club>>

\* disconnect(): self.stop().
MockLaunchMonitor_disconnect == MockLaunchMonitor_stop

\* Mutant of clear_session: the object is re-initialised, club included.
clear_session_reinit ==
    /\ shots' = <<>>
    /\ current_club' = "driver"
    /\ UNCHANGED <<running, shot_callback>>

\* clear_session(): self._shots = [].
clear_session ==
    /\ shots' = <<>>
    /\ UNCHANGED <<running, shot_callback, current_club>>

\* Mutant of set_club: the shots already recorded are re-tagged too.
set_club_retag(club) ==
    /\ current_club' = club
    /\ shots' = [k \in 1..Len(shots) |-> [shots[k] EXCEPT !.club = club]]
    /\ UNCHANGED <<running, shot_callback>>

\* set_club(club): self._current_club = club.
set_club(club) ==
    /\ current_club' = club
    /\ UNCHANGED <<shots, running, shot_callback>>

\* Mutant of append_shot: the shot is put at the front of the list.
append_shot_front(shot) ==
    /\ shots' = <<shot>> \o shots
    /\ UNCHANGED <<running, shot_callback, current_club>>

\* self._shots.append(shot)
append_shot(shot) ==
    /\ shots' = Append(shots, shot)
    /\ UNCHANGED <<running, shot_callback, current_club>>

\* ------------------------------------------------------ monitor lifecycle
\* start_monitor(mock=...): a fresh monitor object, connected and started.
\* main() calls it once, with no monitor active.  LaunchMonitor (mock=False)
\* is not among the sources: its session is taken to answer clear_session,
\* set_club, get_shots and get_session_stats as MockLaunchMonitor's does, and
\* its radar produces no shot here.
\* ok is what monitor.connect() returns; start_monitor does not look at it.
start_monitor(mock, ok) ==
    /\ monitor = "None"
    /\ ~started
    /\ ok \in connect(mock)
    /\ started' = TRUE
    /\ mock_mode' = mock
    /\ monitor' = IF mock THEN "Mock" ELSE "Live"
    /\ connect_ok' = ok
    /\ MockLaunchMonitor_start
    /\ applied' = Append(applied, Mutation("start", 0, "driver", 0, TRUE))
    /\ UNCHANGED <<ret, called, now, sim, clr, sc, snap, clients, log>>

\* stop_monitor(): stop, disconnect and drop the monitor; nothing without one.
\* The dropped object stays reachable only as self of a simulate_shot in
\* flight, so its fields are returned to their initial values.
stop_monitor ==
    IF monitor # "None"
    THEN /\ monitor' = "None"
         /\ MockLaunchMonitor_init
         /\ sim' = [i \in SimSlots |-> [sim[i] EXCEPT !.self_live = FALSE]]
         /\ applied' = Append(applied, Mutation("stop", 0, "none", 0, TRUE))
         /\ UNCHANGED <<caller, mock_mode, now, started, clr, sc, snap, clients, log>>
    ELSE UNCHANGED vars

\* ----------------------------------------------------------- simulate_shot
\* handle_simulate_shot, then simulate_shot up to the construction of the Shot.
\* Mutant of can_simulate: any monitor will do.
can_simulate_any_monitor == monitor # "None"

\* handle_simulate_shot: if monitor and isinstance(monitor, MockLaunchMonitor).
can_simulate == monitor = "Mock"

handle_simulate_shot(i, speed) ==
    /\ sim[i].pc = "idle"
    /\ can_simulate
    /\ Room
    /\ now' = now + 1
    /\ sim' = [sim EXCEPT ![i] =
                 [pc |-> "append",
                  shot |-> [timestamp |-> now + 1, ball_speed_mph |-> speed,
                            club |-> current_club],
                  stats |-> EmptyDict, self_live |-> TRUE, op |-> 0,
                  cap |-> Len(applied)]]
    /\ UNCHANGED <<caller, globals, session, started, clr, sc, snap, clients, log, applied>>

\* handle_simulate_shot with no monitor, or with one that is not a
\* MockLaunchMonitor: the test fails and the handler has nothing left to do.
handle_simulate_shot_skip(i) ==
    /\ sim[i].pc = "idle"
    /\ ~can_simulate
    /\ sim' = [sim EXCEPT ![i] = [IdleSim EXCEPT !.pc = "return"]]
    /\ UNCHANGED <<caller, globals, session, now, started, clr, sc, snap, clients, log, applied>>

\* handle_simulate_shot returns.
handle_simulate_shot_return(i) ==
    /\ sim[i].pc = "return"
    /\ sim' = [sim EXCEPT ![i] = IdleSim]
    /\ UNCHANGED <<caller, globals, session, now, started, clr, sc, snap, clients, log, applied>>

\* Mutant of simulate_shot_append: the callback is never invoked.
simulate_shot_append_no_callback(i) ==
    /\ sim[i].pc = "append"
    /\ IF sim[i].self_live THEN append_shot(sim[i].shot) ELSE UNCHANGED session
    /\ applied' = Append(applied,
                         Mutation("shot", sim[i].shot.timestamp, sim[i].shot.club,
                                  sim[i].cap, sim[i].self_live))
    /\ sim' = [sim EXCEPT ![i] = IdleSim]
    /\ UNCHANGED <<caller, globals, now, started, clr, sc, snap, clients, log>>

\* self._shots.append(shot), then the test of self._shot_callback (a dropped
\* object had been started, so its callback is set).
simulate_shot_append(i) ==
    /\ sim[i].pc = "append"
    /\ IF sim[i].self_live THEN append_shot(sim[i].shot) ELSE UNCHANGED session
    /\ applied' = Append(applied,
                         Mutation("shot", sim[i].shot.timestamp, sim[i].shot.club,
                                  sim[i].cap, sim[i].self_live))
    /\ sim' = [sim EXCEPT ![i] =
                 IF sim[i].self_live => shot_callback
                 THEN [sim[i] EXCEPT !.pc = "stats", !.op = Len(applied) + 1]
                 ELSE IdleSim]
    /\ UNCHANGED <<caller, globals, now, started, clr, sc, snap, clients, log>>

\* on_shot_detected: stats = monitor.get_session_stats() if monitor else {}.
on_shot_detected_stats(i) ==
    /\ sim[i].pc = "stats"
    /\ sim' = [sim EXCEPT ![i] =
                 [sim[i] EXCEPT !.pc = "emit",
                                !.stats = IF monitor # "None"
                                          THEN get_session_stats(shots)
                                          ELSE EmptyDict]]
    /\ UNCHANGED <<caller, globals, session, now, started, clr, sc, snap, clients, log, applied>>

\* on_shot_detected: socketio.emit("shot", {"shot": shot_data, "stats": stats}).
on_shot_detected_emit(i) ==
    /\ sim[i].pc = "emit"
    /\ emit(ShotEvent(shot_to_dict(sim[i].shot), sim[i].stats, sim[i].op))
    /\ sim' = [sim EXCEPT ![i] = IdleSim]
    /\ UNCHANGED <<caller, globals, session, now, started, clr, sc, snap, clients, applied>>

\* ----------------------------------------------------------- clear_session
\* handle_clear_session up to monitor.clear_session().
handle_clear_session ==
    /\ clr.pc = "idle"
    /\ monitor # "None"
    /\ Room
    /\ clear_session
    /\ applied' = Append(applied, Mutation("clear", 0, "none", 0, TRUE))
    /\ clr' = [pc |-> "emit", op |-> Len(applied) + 1]
    /\ UNCHANGED <<caller, globals, now, started, sim, sc, snap, clients, log>>

\* handle_clear_session: socketio.emit("session_cleared").
handle_clear_session_emit ==
    /\ clr.pc = "emit"
    /\ emit(SessionClearedEvent(clr.op))
    /\ clr' = IdleClr
    /\ UNCHANGED <<caller, globals, session, now, started, sim, sc, snap, clients, applied>>

\* ---------------------------------------------------------------- set_club
\* handle_set_club up to monitor.set_club(club), or to the raise of ValueError.
handle_set_club(data) ==
    /\ sc.pc = "idle"
    /\ IsClubType(club_of(data)) => Room
    /\ LET club_name == club_of(data) IN
       IF ~IsClubType(club_name)
       THEN /\ sc' = [pc |-> "except", club_name |-> club_name, club |-> "none",
                      op |-> 0, has_club |-> data.has_club]
            /\ UNCHANGED <<session, applied>>
       ELSE IF monitor # "None"
       THEN /\ set_club(club_name)
            /\ applied' = Append(applied, Mutation("club", 0, club_name, 0, TRUE))
            /\ sc' = [pc |-> "emit", club_name |-> club_name, club |-> club_name,
                      op |-> Len(applied) + 1, has_club |-> data.has_club]
       ELSE /\ sc' = [pc |-> "emit", club_name |-> club_name, club |-> club_name,
                      op |-> 0, has_club |-> data.has_club]
            /\ UNCHANGED <<session, applied>>
    /\ UNCHANGED <<caller, globals, now, started, sim, clr, snap, clients, log>>

\* handle_set_club: socketio.emit("club_changed", {"club": club.value}).
handle_set_club_emit ==
    /\ sc.pc = "emit"
    /\ emit(ClubChangedEvent(sc.club, sc.op))
    /\ sc' = IdleSc
    /\ UNCHANGED <<caller, globals, session, now, started, sim, clr, snap, clients, applied>>

\* handle_set_club: except ValueError: pass.
handle_set_club_except ==
    /\ sc.pc = "except"
    /\ sc' = IdleSc
    /\ UNCHANGED <<caller, globals, session, now, started, sim, clr, snap, clients, log, applied>>

\* ------------------------------------------------- connect and get_session
\* handle_connect up to stats = monitor.get_session_stats(); the client is in
\* the broadcast room from the start of the handler.
handle_connect(o) ==
    /\ joined[o] = -1
    /\ joined' = [joined EXCEPT ![o] = Len(log)]
    /\ IF monitor # "None"
       THEN /\ snap.pc = "idle"
            /\ Room
            /\ snap' = [pc |-> "shots", kind |-> "connect",
                        stats |-> get_session_stats(shots), shots |-> <<>>,
                        base |-> Len(applied), who |-> o]
       ELSE UNCHANGED snap
    /\ UNCHANGED <<caller, globals, session, now, started, sim, clr, sc, log, applied>>

\* handle_disconnect: the client leaves the broadcast room.
handle_disconnect(o) ==
    /\ joined[o] # -1
    /\ joined' = [joined EXCEPT ![o] = -1]
    /\ UNCHANGED <<caller, globals, session, now, started, sim, clr, sc, snap, log, applied>>

\* handle_get_session up to stats = monitor.get_session_stats().
handle_get_session ==
    /\ snap.pc = "idle"
    /\ monitor # "None"
    /\ Room
    /\ snap' = [pc |-> "shots", kind |-> "get_session",
                stats |-> get_session_stats(shots), shots |-> <<>>,
                base |-> Len(applied), who |-> "none"]
    /\ UNCHANGED <<caller, globals, session, now, started, sim, clr, sc, clients, log, applied>>

\* shots = [shot_to_dict(s) for s in monitor.get_shots()], in both handlers;
\* with the monitor dropped meanwhile the call raises and the handler ends.
snapshot_shots ==
    /\ snap.pc = "shots"
    /\ snap' = IF monitor # "None"
               THEN [snap EXCEPT !.pc = "emit",
                                 !.shots = shots_to_dicts(get_shots(shots))]
               ELSE IdleSnap
    /\ UNCHANGED <<caller, globals, session, now, started, sim, clr, sc, clients, log, applied>>

\* socketio.emit("session_state", ...): handle_connect sends mock_mode,
\* handle_get_session does not.
snapshot_emit ==
    /\ snap.pc = "emit"
    /\ emit(Tagged(SessionStateEvent(snap.stats, snap.shots,
                                      IF snap.kind = "connect"
                                      THEN (IF mock_mode THEN "mock" ELSE "live")
                                      ELSE "absent"),
                   snap.who))
    /\ snap' = IdleSnap
    /\ UNCHANGED <<caller, globals, session, now, started, sim, clr, sc, clients, applied>>

Next ==
    \/ \E mock \in BOOLEAN : start_monitor(mock, TRUE)
    \/ stop_monitor
    \/ \E i \in SimSlots, speed \in BallSpeeds : handle_simulate_shot(i, speed)
    \/ \E i \in SimSlots : simulate_shot_append(i)
    \/ \E i \in SimSlots : on_shot_detected_stats(i)
    \/ \E i \in SimSlots : on_shot_detected_emit(i)
    \/ handle_clear_session
    \/ handle_clear_session_emit
    \/ \E data \in SetClubData : handle_set_club(data)
    \/ handle_set_club_emit
    \/ handle_set_club_except
    \/ \E o \in Observers : handle_connect(o)
    \/ \E o \in Observers : handle_disconnect(o)
    \/ handle_get_session
    \/ snapshot_shots
    \/ snapshot_emit

\* Every handler may interleave with every other.
Spec == Init /\ [][Next]_vars

\* The same, with simulate_shot requests arriving one at a time: a request is
\* taken up only when no other simulate_shot is in flight.
NextSeq == Next /\ Cardinality({i \in SimSlots : sim'[i].pc # "idle"}) <= 1
SpecSeq == Init /\ [][NextSeq]_vars

\* The monitor's life and the simulate_shot command alone: connect() may
\* report failure, and a simulate_shot may arrive whatever the monitor is.
\* (In Spec the monitor connects, and the path of handle_simulate_shot that
\* fails its test, which changes nothing, is left out.)
NextLifecycle ==
    \/ \E mock \in BOOLEAN, ok \in BOOLEAN : start_monitor(mock, ok)
    \/ stop_monitor
    \/ \E i \in SimSlots, speed \in BallSpeeds : handle_simulate_shot(i, speed)
    \/ \E i \in SimSlots : handle_simulate_shot_skip(i)
    \/ \E i \in SimSlots : handle_simulate_shot_return(i)
    \/ \E i \in SimSlots : simulate_shot_append(i)
    \/ \E i \in SimSlots : on_shot_detected_stats(i)
    \/ \E i \in SimSlots : on_shot_detected_emit(i)
SpecLifecycle == Init /\ [][NextLifecycle]_vars

\* ------------------------------------------------- the source by itself
\* The mock monitor driven through its own methods, one call at a time, by
\* code that holds the object (as stop_monitor and the handlers do).

\* monitor = MockLaunchMonitor(): start_monitor as far as the construction
\* of the object, which is there and was never started.
source_new ==
    /\ monitor = "None"
    /\ ~started
    /\ started' = TRUE
    /\ mock_mode' = TRUE
    /\ monitor' = "Mock"
    /\ MockLaunchMonitor_init
    /\ applied' = Append(applied, Mutation("start", 0, "driver", 0, TRUE))
    /\ UNCHANGED <<caller, now, sim, clr, sc, snap, clients, log>>

\* monitor.connect()
source_connect ==
    /\ monitor = "Mock"
    /\ connect_ok' \in connect(TRUE)
    /\ Called("connect")
    /\ UNCHANGED <<ret, globals, session, now, started, sim, clr, sc, snap, clients,
                   log, applied>>

\* monitor.stop()
source_stop ==
    /\ monitor = "Mock"
    /\ MockLaunchMonitor_stop
    /\ Called("stop")
    /\ UNCHANGED <<connect_ok, ret, globals, now, started, sim, clr, sc, snap, clients,
                   log, applied>>

\* monitor.disconnect()
source_disconnect ==
    /\ monitor = "Mock"
    /\ MockLaunchMonitor_disconnect
    /\ Called("disconnect")
    /\ UNCHANGED <<connect_ok, ret, globals, now, started, sim, clr, sc, snap, clients,
                   log, applied>>

\* monitor.start(shot_callback=on_shot_detected)
source_start ==
    /\ monitor = "Mock"
    /\ start
    /\ Called("start")
    /\ UNCHANGED <<connect_ok, ret, globals, now, started, sim, clr, sc, snap, clients,
                   log, applied>>

\* monitor.simulate_shot(), the whole call: the shot is built and appended
\* and, with a callback set, on_shot_detected broadcasts it.
simulate_shot(speed) ==
    /\ monitor = "Mock"
    /\ Room
    /\ now < MaxEvents
    /\ now' = now + 1
    /\ LET shot == [timestamp |-> now + 1, ball_speed_mph |-> speed,
                    club |-> current_club]
       IN  /\ append_shot(shot)
           /\ applied' = Append(applied, Mutation("shot", now + 1, current_club,
                                                   Len(applied), TRUE))
           /\ IF shot_callback
              THEN emit(ShotEvent(shot_to_dict(shot),
                                  get_session_stats(Append(shots, shot)),
                                  Len(applied) + 1))
              ELSE UNCHANGED log
    /\ UNCHANGED <<caller, globals, started, sim, clr, sc, snap, clients>>

\* lst = monitor.get_shots()
source_get_shots ==
    /\ monitor = "Mock"
    /\ ret' = [ref |-> get_shots_ref, val |-> get_shots(shots)]
    /\ UNCHANGED <<connect_ok, called, globals, session, now, started, sim, clr, sc, snap,
                   clients, log, applied>>

\* The caller changes the list it holds: lst.append(x), lst.pop() or
\* lst.clear().  Only a list that is self._shots itself takes the session's
\* shots with it.
mutate_returned(kind) ==
    /\ ret.ref # "none"
    /\ kind = "pop" => ret.val # <<>>
    /\ kind = "clear" => ret.val # <<>>
    /\ kind = "append" => Len(ret.val) < MaxEvents
    /\ LET v == CASE kind = "append" -> Append(ret.val, NoShot)
                  [] kind = "pop" -> SubSeq(ret.val, 1, Len(ret.val) - 1)
                  [] OTHER -> <<>>
       IN  /\ ret' = [ret EXCEPT !.val = v]
           /\ IF ret.ref = "self._shots"
              THEN /\ shots' = v
                   /\ UNCHANGED <<running, shot_callback, current_club>>
              ELSE UNCHANGED session
    /\ UNCHANGED <<connect_ok, called, globals, now, started, sim, clr, sc, snap, clients,
                   log, applied>>

NextSource ==
    \/ start_monitor(TRUE, TRUE)
    \/ stop_monitor
    \/ source_new
    \/ source_connect
    \/ source_stop
    \/ source_disconnect
    \/ source_start
    \/ \E speed \in SourceSpeeds : simulate_shot(speed)
    \/ source_get_shots
    \/ \E kind \in ListMutations : mutate_returned(kind)
SpecSource == Init /\ [][NextSource]_vars

\* ------------------------------------------------------------ observation
\* The events client o has received since it connected.
Inbox(o) == IF joined[o] = -1 THEN <<>> ELSE SubSeq(log, joined[o] + 1, Len(log))

IsShotEvent(e) == e.type = "shot"
\* The timestamps of the "shot" events of a sequence of events, in order.
ShotTs(evs) ==
    LET S == SelectSeq(evs, IsShotEvent) IN [k \in 1..Len(S) |-> S[k].shot.timestamp]

IsAppend(m) == m.kind = "shot"
\* The timestamps of the shots appended so far, in append order.
AppendTs == LET S == SelectSeq(applied, IsAppend) IN [k \in 1..Len(S) |-> S[k].ts]

SimIdle == \A i \in SimSlots : sim[i].pc = "idle"
\* No handler and no callback is in progress.
Quiescent == SimIdle /\ clr.pc = "idle" /\ sc.pc = "idle" /\ snap.pc = "idle"

\* The last session boundary (start, stop, clear) among the first p mutations.
LastReset(p) ==
    LET R == {q \in 1..p : applied[q].kind \in {"start", "stop", "clear"}} \cup {0}
    IN  CHOOSE q \in R : \A r \in R : r <= q
\* The shots of the session right after the first p mutations, by timestamp.
LedgerAfter(p) ==
    LET q == LastReset(p)
        S == SelectSeq(SubSeq(applied, q + 1, p), LAMBDA m : m.kind = "shot" /\ m.live)
    IN  [k \in 1..Len(S) |-> S[k].ts]
\* The current club right after the first p mutations.
ClubAfter(p) ==
    LET R == {q \in 1..p : applied[q].kind \in {"start", "stop", "club"}}
    IN  IF R = {} THEN "driver"
        ELSE LET q == CHOOSE q \in R : \A r \in R : r <= q
             IN  IF applied[q].kind = "club" THEN applied[q].club ELSE "driver"

\* What a client holds after it replays events evs from shot list acc.
RECURSIVE Replay(_, _)
Replay(evs, acc) ==
    IF evs = <<>> THEN acc
    ELSE LET e == Head(evs) IN
         Replay(Tail(evs),
                CASE e.type = "session_state" -> e.shots
                  [] e.type = "shot" -> Append(acc, e.shot)
                  [] e.type = "session_cleared" -> <<>>
                  [] OTHER -> acc)

\* ------------------------------------------------------------------ claims

ConnectedThroughout(o) ==
    /\ joined[o] # -1
    /\ monitor # "None"
    /\ snap.who # o
    /\ \A k \in 1..Len(Inbox(o)) : Inbox(o)[k].who # o

\* C2: the events that a client connected throughout receives for mutations
\* of the session arrive in the order in which the mutations were applied.
C2_EventsInMutationOrder ==
    \A o \in Observers :
      ConnectedThroughout(o) =>
        LET I == Inbox(o) IN
        \A i, j \in 1..Len(I) :
          (i < j /\ I[i].op > 0 /\ I[j].op > 0) => I[i].op < I[j].op

\* C3: the stats of every "shot" event (computed with a monitor active) count
\* that shot and give the length the shot list had right after its append.
C3_ShotStatsAsOfAppend ==
    \A k \in 1..Len(log) :
      LET e == log[k] IN
      (e.type = "shot" /\ e.op > 0 /\ applied[e.op].live /\ e.stats.keys # {})
      => /\ "shot_count" \in e.stats.keys
         /\ e.stats.shot_count >= 1
         /\ e.stats.shot_count = Len(LedgerAfter(e.op))

\* C4: in every "session_state" event, stats.shot_count is the length of the
\* shots list of the same event.
C4_SnapshotConsistent ==
    \A k \in 1..Len(log) :
      log[k].type = "session_state" =>
        log[k].stats.shot_count = Len(log[k].shots)

C6_ReplayEqualsSession ==
    (Quiescent /\ monitor # "None") =>
      \A o \in Observers :
        (/\ joined[o] # -1
         /\ \E k \in 1..Len(Inbox(o)) :
              Inbox(o)[k].type = "session_state" /\ Inbox(o)[k].who = o)
        => Replay(Inbox(o), <<>>) = shots_to_dicts(shots)

\* C7: the step of handle_clear_session that clears the session leaves an
\* empty shot list with the empty-baseline statistics, and leaves the current
\* club, the running flag and the monitor as they were.
C7_ClearChangesOnlyShots ==
    [][(clr.pc = "idle" /\ clr'.pc = "emit")
       => /\ get_shots(shots') = <<>>
          /\ get_session_stats(shots').shot_count = 0
          /\ get_session_stats(shots').avg_ball_speed = <<0, 1>>
          /\ get_session_stats(shots').max_ball_speed = 0
          /\ get_session_stats(shots').min_ball_speed = 0
          /\ current_club' = current_club
          /\ running' = running
          /\ monitor' = monitor]_vars

\* C7 witness: a clear has just emptied a running session that held a shot.
C7_Witness ==
    /\ clr.pc = "emit"
    /\ clr.op = Len(applied)
    /\ Len(LedgerAfter(clr.op - 1)) >= 1
    /\ shots = <<>>
    /\ running

C9_UnknownClubRejected ==
    [][/\ (sc.pc = "idle" /\ sc'.pc # "idle" /\ sc'.club_name \notin ClubType)
          => (sc'.pc = "except" /\ UNCHANGED <<current_club, shots, log>>)
       /\ (sc.pc = "except" /\ sc' # sc)
          => (sc'.pc = "idle" /\ UNCHANGED <<current_club, shots, log>>)
       /\ current_club' \in ClubType
       /\ \A k \in 1..Len(log') :
            log'[k].type = "club_changed" => log'[k].club \in ClubType]_vars

\* C9 witness: a set_club with an unknown name has been rejected while the
\* session holds a shot and a club other than the default.
C9_Witness ==
    /\ sc.pc = "except"
    /\ sc.club_name = "not_a_real_club"
    /\ current_club = "putter"
    /\ Len(shots) >= 1

\* C10: a set_club whose payload has no "club" field, received with a monitor
\* active, leaves the current club unchanged and leads to no "club_changed".
C10_MissingClubIgnored ==
    [][(/\ sc.pc = "idle" /\ sc'.pc # "idle"
        /\ ~sc'.has_club
        /\ monitor # "None")
       => (current_club' = current_club /\ sc'.pc # "emit")]_vars

\* C11: every "club_changed" event broadcast reports a set_club applied to a
\* session: a monitor was active when the handler reached the emit, and the
\* event names the club that set_club stored.
C11_ClubChangedOnlyAfterSetClub ==
    \A k \in 1..Len(log) :
      log[k].type = "club_changed"
        => /\ log[k].op \in 1..Len(applied)
           /\ applied[log[k].op].kind = "club"
           /\ applied[log[k].op].club = log[k].club

\* C12: a simulate_shot received with no monitor, or with a monitor that is
\* not the mock one, does nothing: the handler only returns, and neither of
\* its steps changes the session, the shot count or the events broadcast.
C12_SimulateWithoutMockIsNoOp ==
    [][\A i \in SimSlots :
         /\ (sim[i].pc = "idle" /\ sim'[i].pc # "idle" /\ monitor # "Mock")
            => (/\ sim'[i].pc = "return"
                /\ UNCHANGED <<session, globals, log, applied, now>>)
         /\ (sim[i].pc = "return" /\ sim'[i] # sim[i])
            => (/\ sim'[i].pc = "idle"
                /\ UNCHANGED <<session, globals, log, applied, now>>)]_vars

\* C12 witness: a simulate_shot received by a live-mode monitor is about to
\* return, with nothing appended and nothing broadcast.
C12_Witness ==
    /\ monitor = "Live"
    /\ \E i \in SimSlots : sim[i].pc = "return"
    /\ shots = <<>>
    /\ log = <<>>

\* C13: start(shot_callback) is never called on a monitor whose connect()
\* reported failure: a monitor that start_monitor has started (it is running
\* with its callback set) is one whose connect() succeeded.
C13_NoStartAfterFailedConnect ==
    (monitor # "None" /\ running /\ shot_callback) => connect_ok

\* C14: once stop() has returned, and until the next start(), the mock
\* monitor invokes no shot callback: no step taken while the monitor exists
\* and is not running broadcasts a "shot" event, a simulate_shot called after
\* the stop included.
C14_NoCallbackAfterStop ==
    [][(monitor = "Mock" /\ ~running)
       => \A k \in (Len(log) + 1)..Len(log') : log'[k].type # "shot"]_vars

\* C15: a connected client receives a "session_state" only for its own
\* connect, at most once, or for a get_session request: none of the
\* "session_state" events in its inbox was caused by another client's
\* connect.
C15_SessionStateOnlyForOwnConnect ==
    \A o \in Observers :
      LET inbox == Inbox(o)
          own == {k \in 1..Len(inbox) :
                    inbox[k].type = "session_state" /\ inbox[k].who = o}
      IN  /\ \A k \in 1..Len(inbox) :
                inbox[k].type = "session_state" => inbox[k].who \in {o, "none"}
          /\ Cardinality(own) <= 1

\* C16: every "session_state" event broadcast, whether for a connect or for a
\* get_session, carries the statistics, the shots and the mode flag.
C16_SessionStateCarriesMode ==
    \A k \in 1..Len(log) :
      log[k].type = "session_state"
        => /\ "shot_count" \in log[k].stats.keys
           /\ log[k].mode \in {"mock", "live"}

\* C17: when handle_connect broadcasts its "session_state" and no mutation
\* was applied since the handler began, the event names the current club of
\* the session.
C17_SnapshotCarriesClub ==
    [][(/\ snap.pc = "emit" /\ snap.kind = "connect"
        /\ snap'.pc = "idle"
        /\ Len(applied) = snap.base)
       => LET e == log'[Len(log')] IN
          /\ e.type = "session_state"
          /\ e.club = current_club]_vars

\* C18: for a session holding one or more shots, get_session_stats gives
\* shot_count = the number of shots, avg_ball_speed = the sum of the ball
\* speeds divided by that number, exactly, and max_ball_speed and
\* min_ball_speed = the greatest and the least ball speed among the shots;
\* for 150 mph then 140 mph: shot_count 2 and avg_ball_speed 145.
C18_StatsOfNonEmptySession ==
    shots # <<>> =>
      LET st == get_session_stats(shots)
          n == Len(shots)
          speed == [k \in 1..n |-> shots[k].ball_speed_mph]
      IN  /\ st.shot_count = n
          /\ st.avg_ball_speed[2] > 0
          /\ st.avg_ball_speed[1] * n = SumSpeeds(shots) * st.avg_ball_speed[2]
          /\ \E k \in 1..n : speed[k] = st.max_ball_speed
          /\ \A k \in 1..n : speed[k] <= st.max_ball_speed
          /\ \E k \in 1..n : speed[k] = st.min_ball_speed
          /\ \A k \in 1..n : speed[k] >= st.min_ball_speed
          /\ speed = <<15000, 14000>>
               => (st.shot_count = 2 /\ st.avg_ball_speed = <<14500, 1>>)
          /\ speed = <<14000, 15001>> => st.avg_ball_speed = <<29001, 2>>

\* C18 witness: the session holds a shot of 150 mph then one of 140 mph, and
\* the statistics broadcast with the second shot count 2 shots.
C18_Witness ==
    /\ Len(shots) = 2
    /\ shots[1].ball_speed_mph = 15000
    /\ shots[2].ball_speed_mph = 14000
    /\ log # <<>>
    /\ log[Len(log)].type = "shot"
    /\ log[Len(log)].stats.shot_count = 2

\* C19: every step leaves the shot sequence of the session as it is, or puts
\* exactly one shot at its end, the one built for a simulate_shot request in
\* flight, or empties it in the clear_session handler; no recorded shot is
\* changed, removed by itself or moved, and no shot appears without a
\* request.  (stop_monitor drops the session with its monitor: the sequence
\* then ends, it is not changed.)
C19_ShotsAppendOnly ==
    [][\/ shots' = shots
       \/ /\ monitor' = monitor
          /\ \E i \in SimSlots :
               /\ sim[i].pc = "append"
               /\ sim'[i].pc # "append"
               /\ shots' = Append(shots, sim[i].shot)
       \/ /\ monitor' = monitor
          /\ clr.pc = "idle" /\ clr'.pc # "idle"
          /\ shots' = <<>>
       \/ /\ monitor # "None" /\ monitor' = "None"
          /\ shots' = <<>>]_vars

\* C19 witness: two shots have been appended, the later one at the end, and
\* a clear_session request is not in flight.
C19_Witness ==
    /\ Len(shots) = 2
    /\ shots[1].timestamp < shots[2].timestamp
    /\ clr.pc = "idle"
    /\ monitor = "Mock"

\* C20: the list get_shots returns is a copy: a step in which a caller
\* changes the list it holds leaves the shot sequence of the session, what a
\* later get_shots returns and what a later get_session_stats returns as
\* they were.
C20_ReturnedListIsCopy ==
    [][(/\ ret.ref # "none"
        /\ ret'.ref = ret.ref
        /\ ret'.val # ret.val)
       => /\ shots' = shots
          /\ get_shots(shots') = get_shots(shots)
          /\ get_session_stats(shots') = get_session_stats(shots)]_vars

\* C20 witness: a caller has changed the list it got from get_shots, which
\* now differs from the one or more shots the session holds.
C20_Witness ==
    /\ monitor = "Mock"
    /\ ret.ref # "none"
    /\ shots # <<>>
    /\ ret.val # shots
    /\ Len(ret.val) >= Len(shots)

\* C21: stop() and disconnect() can be called on the mock monitor in every
\* state, started or not, and a call of either leaves it not running and
\* changes nothing else; called again after a stop() or a disconnect(), it
\* changes nothing at all.  stop_monitor with no monitor (as when called a
\* second time) can be called and changes nothing.
C21_StopAndDisconnectIdempotent ==
    /\ [](/\ monitor = "Mock" => (ENABLED source_stop /\ ENABLED source_disconnect)
          /\ monitor = "None" => /\ ENABLED stop_monitor
                                 /\ ~ENABLED (stop_monitor /\ vars' # vars))
    /\ [][(/\ called'.tick # called.tick
            /\ called'.last \in {"stop", "disconnect"})
           => /\ ~running'
              /\ UNCHANGED <<shots, shot_callback, current_club, globals, log>>
              /\ called.last \in {"stop", "disconnect"} => UNCHANGED session]_vars

\* C21 witness: disconnect() has been called twice in a row on a monitor that
\* was never started, and the monitor is not running.
C21_Witness ==
    /\ monitor = "Mock"
    /\ ~shot_callback
    /\ called.prev = "disconnect"
    /\ called.last = "disconnect"
    /\ ~running

\* C22: while the session holds fewer than two shots, none or one, the
\* statistics hold a "std_dev" entry and its value is 0.
C22_StdDevZeroBelowTwoShots ==
    (monitor = "Mock" /\ Len(shots) < 2)
      => LET st == get_session_stats(shots)
         IN  /\ "std_dev" \in st.keys
             /\ st.std_dev = <<0, 1>>

====
